---- MODULE Spec2Model ----
(***************************************************************************)
(* Model of the ADS122C04 async driver: the register codec                 *)
(* (src/src/registers.rs) and the device session (src/src/lib.rs).         *)
(* The transport (embedded_hal_async::i2c::I2c) is the environment: each   *)
(* transaction either succeeds (returning bytes for a write_read) or fails *)
(* with an error value.  The variable i2c holds the transactions the       *)
(* transport saw during the most recent call.                              *)
(***************************************************************************)
EXTENDS Integers, Sequences, FiniteSets, TLC

\* ---------------------------------------------------------------- bounds
\* largest N of read_data::<N>
MaxDataLen == 2
\* largest N of write_regs::<N>
MaxRegs == 2

\* ------------------------------------------------------- u8 arithmetic
RECURSIVE BitOr(_, _)
BitOr(a, b) ==
    IF a = 0 THEN b
    ELSE IF b = 0 THEN a
    ELSE (IF a % 2 = 1 \/ b % 2 = 1 THEN 1 ELSE 0) + 2 * BitOr(a \div 2, b \div 2)

RECURSIVE BitAnd(_, _)
BitAnd(a, b) ==
    IF a = 0 \/ b = 0 THEN 0
    ELSE (IF a % 2 = 1 /\ b % 2 = 1 THEN 1 ELSE 0) + 2 * BitAnd(a \div 2, b \div 2)

\* x << k on a u8 (k < 8): the bits shifted out are dropped
Shl(x, k) == (x * (2 ^ k)) % 256

\* x >> k on a u8
Shr(x, k) == x \div (2 ^ k)

\* `b as u8`
bool_as_u8(b) == IF b THEN 1 ELSE 0

Byte == 0 .. 255

\* ------------------------------------------------------------ enums
\* each enum is the record  member name |-> discriminant  (`m as u8`)
Mux ==
    [A0A1 |-> 0, A0A2 |-> 1, A0A3 |-> 2, A1A0 |-> 3, A1A2 |-> 4, A1A3 |-> 5,
     A2A3 |-> 6, A3A2 |-> 7, A0Vss |-> 8, A1Vss |-> 9, A2Vss |-> 10,
     A3Vss |-> 11, Vref |-> 12, Supply |-> 13, Shorted |-> 14]

Gain ==
    [X1 |-> 0, X2 |-> 1, X4 |-> 2, X8 |-> 3, X16 |-> 4, X32 |-> 5,
     X64 |-> 6, X128 |-> 7]

DataRate ==
    [N20 |-> 0, N45 |-> 1, N90 |-> 2, N175 |-> 3, N330 |-> 4, N600 |-> 5,
     N1000 |-> 6,
     T40 |-> 16, T90 |-> 17, T180 |-> 18, T350 |-> 19, T660 |-> 20,
     T1200 |-> 21, T2000 |-> 22]

ConversionMode == [Single |-> 0, Continuous |-> 1]

Vref == [Internal |-> 0, External |-> 1, Supply |-> 2, Supply2 |-> 3]

DataIntegrityMode == [Disabled |-> 0, InvertedData |-> 1, Crc16 |-> 2]

CurrentDac ==
    [Off |-> 0, I10uA |-> 1, I50uA |-> 2, I100uA |-> 3, I250uA |-> 4,
     I500uA |-> 5, I1000uA |-> 6, I1500uA |-> 7]

CurrentMux ==
    [Disabled |-> 0, Ain0 |-> 1, Ain1 |-> 2, Ain2 |-> 3, Ain3 |-> 4,
     Refp |-> 5, Refn |-> 6]

\* derived TryFromPrimitive: the member whose discriminant is code, if any
try_from(E, code) ==
    IF \E m \in DOMAIN E : E[m] = code
    THEN [ok |-> TRUE, value |-> CHOOSE m \in DOMAIN E : E[m] = code]
    ELSE [ok |-> FALSE, value |-> "TryFromPrimitiveError"]

\* Result::unwrap_or
unwrap_or(r, default) == IF r.ok THEN r.value ELSE default

\* DataRate::from_dr_mode
from_dr_mode(data_rate, turbo_mode) ==
    CASE ~turbo_mode /\ data_rate = 0 -> "N20"
      [] ~turbo_mode /\ data_rate = 1 -> "N45"
      [] ~turbo_mode /\ data_rate = 2 -> "N90"
      [] ~turbo_mode /\ data_rate = 3 -> "N175"
      [] ~turbo_mode /\ data_rate = 4 -> "N330"
      [] ~turbo_mode /\ data_rate = 5 -> "N600"
      [] ~turbo_mode /\ data_rate = 6 -> "N1000"
      [] ~turbo_mode /\ data_rate \notin 0 .. 6 -> "N20"
      [] turbo_mode /\ data_rate = 0 -> "T40"
      [] turbo_mode /\ data_rate = 1 -> "T90"
      [] turbo_mode /\ data_rate = 2 -> "T180"
      [] turbo_mode /\ data_rate = 3 -> "T350"
      [] turbo_mode /\ data_rate = 4 -> "T660"
      [] turbo_mode /\ data_rate = 5 -> "T1200"
      [] turbo_mode /\ data_rate = 6 -> "T2000"
      [] turbo_mode /\ data_rate \notin 0 .. 6 -> "T40"

\* ------------------------------------------------------- register types
Register0 == [mux : DOMAIN Mux, gain : DOMAIN Gain, pga_bypass : BOOLEAN]

Register1 ==
    [data_rate : DOMAIN DataRate, conversion_mode : DOMAIN ConversionMode,
     voltage_reference : DOMAIN Vref, temperature_sensor_mode : BOOLEAN]

Register2 ==
    [data_ready : BOOLEAN, data_count_enable : BOOLEAN,
     data_integrity_mode : DOMAIN DataIntegrityMode,
     burn_out_source_enable : BOOLEAN, current_dac : DOMAIN CurrentDac]

Register3 == [current_mux_1 : DOMAIN CurrentMux, current_mux_2 : DOMAIN CurrentMux]

\* the variants of enum Register
Reg0(r) == [index |-> 0, reg |-> r]
Reg1(r) == [index |-> 1, reg |-> r]
Reg2(r) == [index |-> 2, reg |-> r]
Reg3(r) == [index |-> 3, reg |-> r]

\* ------------------------------------------------------------- encode
\* impl From<Register0> for u8
Register0_into_u8(value) ==
    LET mux == Mux[value.mux]
        gain == Gain[value.gain]
        pga_bypass == bool_as_u8(value.pga_bypass)
    IN  BitOr(BitOr(Shl(mux, 4), Shl(gain, 1)), pga_bypass)

\* impl From<Register1> for u8
Register1_into_u8(value) ==
    LET dr == BitAnd(DataRate[value.data_rate], 15)
        mode == bool_as_u8(BitAnd(DataRate[value.data_rate], 240) # 0)
        cm == ConversionMode[value.conversion_mode]
        vref == Vref[value.voltage_reference]
        ts == bool_as_u8(value.temperature_sensor_mode)
    IN  BitOr(BitOr(BitOr(BitOr(Shl(dr, 5), Shl(mode, 4)), Shl(cm, 3)), Shl(vref, 1)), ts)

\* impl From<Register2> for u8
Register2_into_u8(value) ==
    LET drdy == bool_as_u8(value.data_ready)
        dcnt == bool_as_u8(value.data_count_enable)
        crc == DataIntegrityMode[value.data_integrity_mode]
        bcs == bool_as_u8(value.burn_out_source_enable)
        idac == CurrentDac[value.current_dac]
    IN  BitOr(BitOr(BitOr(BitOr(Shl(drdy, 7), Shl(dcnt, 6)), Shl(crc, 4)), Shl(bcs, 3)), idac)

\* a slip in the second shift amount
Register3_into_u8_Mutant(value) ==
    LET cm1 == CurrentMux[value.current_mux_1]
        cm2 == CurrentMux[value.current_mux_2]
    IN  BitOr(Shl(cm1, 5), Shl(cm2, 1))

\* impl From<Register3> for u8
Register3_into_u8(value) ==
    LET cm1 == CurrentMux[value.current_mux_1]
        cm2 == CurrentMux[value.current_mux_2]
    IN  BitOr(Shl(cm1, 5), Shl(cm2, 2))

\* ------------------------------------------------------------- decode
\* a slip in the mask of the mux field
read_reg0_decode_Mutant(value) ==
    LET mux == BitAnd(Shr(value, 4), 7)
        gain == BitAnd(Shr(value, 1), 7)
        pga_bypass == BitAnd(value, 1)
    IN  [mux |-> unwrap_or(try_from(Mux, mux), "A0A1"),
         gain |-> unwrap_or(try_from(Gain, gain), "X1"),
         pga_bypass |-> pga_bypass # 0]

\* read_reg0 after the raw read
read_reg0_decode(value) ==
    LET mux == Shr(value, 4)
        gain == BitAnd(Shr(value, 1), 7)
        pga_bypass == BitAnd(value, 1)
    IN  [mux |-> unwrap_or(try_from(Mux, mux), "A0A1"),
         gain |-> unwrap_or(try_from(Gain, gain), "X1"),
         pga_bypass |-> pga_bypass # 0]

\* read_reg1 after the raw read
read_reg1_decode(value) ==
    LET dr == BitAnd(Shr(value, 5), 7)
        mode == Shr(value, 4) # 0
        cm == BitAnd(Shr(value, 3), 1)
        vref == BitAnd(Shr(value, 1), 3)
        ts == BitAnd(value, 1)
    IN  [data_rate |-> from_dr_mode(dr, mode),
         conversion_mode |-> unwrap_or(try_from(ConversionMode, cm), "Single"),
         voltage_reference |-> unwrap_or(try_from(Vref, vref), "Internal"),
         temperature_sensor_mode |-> ts # 0]

\* read_reg2 after the raw read
read_reg2_decode(value) ==
    LET drdy == Shr(value, 7) # 0
        dcnt == Shr(value, 6) # 0
        crc == BitAnd(Shr(value, 4), 3)
        bcs == Shr(value, 3) # 0
        idac == BitAnd(value, 3)
    IN  [data_ready |-> drdy,
         data_count_enable |-> dcnt,
         data_integrity_mode |-> unwrap_or(try_from(DataIntegrityMode, crc), "Disabled"),
         burn_out_source_enable |-> bcs,
         current_dac |-> unwrap_or(try_from(CurrentDac, idac), "Off")]

\* read_reg3 after the raw read
read_reg3_decode(value) ==
    LET i1mux == BitAnd(Shr(value, 5), 7)
        i2mux == BitAnd(Shr(value, 2), 7)
    IN  [current_mux_1 |-> unwrap_or(try_from(CurrentMux, i1mux), "Disabled"),
         current_mux_2 |-> unwrap_or(try_from(CurrentMux, i2mux), "Disabled")]

\* ---------------------------------------------------------- transport
\* SevenBitAddress values a session is created with
Addresses == {64, 69}

\* values of I::Error
Errors == {"Nack", "ArbitrationLoss"}

\* bytes the device answers read_data with
DataBytes == {165, 255}

\* outcome of one transport transaction
TransportOk(data) == [ok |-> TRUE, data |-> data, err |-> "none"]
TransportErr(e) == [ok |-> FALSE, data |-> << >>, err |-> e]

\* outcomes of I2c::write
WriteResults == {TransportOk(<< >>)} \cup {TransportErr(e) : e \in Errors}

\* outcomes of I2c::write_read into a buffer of n bytes
WriteReadResults(n, bytes) ==
    {TransportOk(d) : d \in [1 .. n -> bytes]} \cup {TransportErr(e) : e \in Errors}

\* one I2c::write as the transport sees it
I2cWrite(addr, bytes, result) ==
    [kind |-> "write", address |-> addr, write |-> bytes, read_len |-> 0,
     result |-> result]

\* one I2c::write_read as the transport sees it
I2cWriteRead(addr, bytes, n, result) ==
    [kind |-> "write_read", address |-> addr, write |-> bytes, read_len |-> n,
     result |-> result]

\* Result<T, I::Error>
Ok(v) == [ok |-> TRUE, value |-> v, err |-> "none"]
Err(e) == [ok |-> FALSE, value |-> "none", err |-> e]

\* the call just made: operation, const generic N, argument
Call(name, n, registers) == [name |-> name, N |-> n, registers |-> registers]

\* Register arguments write_regs is called with
RegisterArgs ==
    {Reg0([mux |-> "A1A0", gain |-> "X8", pga_bypass |-> TRUE]),
     Reg0([mux |-> "Shorted", gain |-> "X128", pga_bypass |-> FALSE]),
     Reg1([data_rate |-> "T1200", conversion_mode |-> "Single",
           voltage_reference |-> "External", temperature_sensor_mode |-> TRUE]),
     Reg2([data_ready |-> FALSE, data_count_enable |-> TRUE,
           data_integrity_mode |-> "Crc16", burn_out_source_enable |-> FALSE,
           current_dac |-> "I100uA"]),
     Reg3([current_mux_1 |-> "Refn", current_mux_2 |-> "Ain0"])}

\* the arrays [Register; N]
RegisterArrays == UNION {[1 .. n -> RegisterArgs] : n \in 0 .. MaxRegs}

\* -------------------------------------------------------------- session
VARIABLES
    address,    \* ADS122C04.address
    i2c,        \* ADS122C04.i2c: the transactions it saw during the last call
    op,         \* the last call made on the session
    ret         \* what that call returned

vars == <<address, i2c, op, ret>>

\* ADS122C04::new, before any call
Init ==
    /\ address \in Addresses
    /\ i2c = << >>
    /\ op = Call("new", 0, << >>)
    /\ ret = Ok("Self")

\* a second attempt after a failed write
reset_Mutant ==
    \E r \in WriteResults, r2 \in WriteResults :
        /\ i2c' = IF r.ok THEN <<I2cWrite(address, <<6>>, r)>>
                  ELSE <<I2cWrite(address, <<6>>, r), I2cWrite(address, <<6>>, r2)>>
        /\ ret' = IF r.ok THEN Ok("unit")
                  ELSE IF r2.ok THEN Ok("unit") ELSE Err(r2.err)
        /\ op' = Call("reset", 0, << >>)
        /\ UNCHANGED address

\* ADS122C04::reset
reset ==
    \E r \in WriteResults :
        /\ i2c' = <<I2cWrite(address, <<6>>, r)>>
        /\ ret' = IF r.ok THEN Ok("unit") ELSE Err(r.err)
        /\ op' = Call("reset", 0, << >>)
        /\ UNCHANGED address

\* the session forgets its address after a failed write
start_sync_Mutant ==
    \E r \in WriteResults :
        /\ i2c' = <<I2cWrite(address, <<8>>, r)>>
        /\ ret' = IF r.ok THEN Ok("unit") ELSE Err(r.err)
        /\ op' = Call("start_sync", 0, << >>)
        /\ address' = IF r.ok THEN address ELSE 0

\* ADS122C04::start_sync
start_sync ==
    \E r \in WriteResults :
        /\ i2c' = <<I2cWrite(address, <<8>>, r)>>
        /\ ret' = IF r.ok THEN Ok("unit") ELSE Err(r.err)
        /\ op' = Call("start_sync", 0, << >>)
        /\ UNCHANGED address

\* ADS122C04::power_down
power_down ==
    \E r \in WriteResults :
        /\ i2c' = <<I2cWrite(address, <<2>>, r)>>
        /\ ret' = IF r.ok THEN Ok("unit") ELSE Err(r.err)
        /\ op' = Call("power_down", 0, << >>)
        /\ UNCHANGED address

\* ADS122C04::read_data::<N>
read_data ==
    \E n \in 0 .. MaxDataLen :
        \E r \in WriteReadResults(n, DataBytes) :
            /\ i2c' = <<I2cWriteRead(address, <<16>>, n, r)>>
            /\ ret' = IF r.ok THEN Ok(r.data) ELSE Err(r.err)
            /\ op' = Call("read_data", n, << >>)
            /\ UNCHANGED address

\* any set bit makes the result true
data_ready_bit_Mutant(out) == out[1] # 0

\* read_data_ready after the write_read: `(out[0] >> 7) != 0`
data_ready_bit(out) == Shr(out[1], 7) # 0

\* ADS122C04::read_data_ready
read_data_ready ==
    \E r \in WriteReadResults(1, Byte) :
        /\ i2c' = <<I2cWriteRead(address, <<40>>, 1, r)>>
        /\ ret' = IF r.ok THEN Ok(data_ready_bit(r.data)) ELSE Err(r.err)
        /\ op' = Call("read_data_ready", 0, << >>)
        /\ UNCHANGED address

\* the `match reg` of write_regs: (register index, encoded value)
Register_match(reg) ==
    CASE reg.index = 0 -> <<0, Register0_into_u8(reg.reg)>>
      [] reg.index = 1 -> <<1, Register1_into_u8(reg.reg)>>
      [] reg.index = 2 -> <<2, Register2_into_u8(reg.reg)>>
      [] reg.index = 3 -> <<3, Register3_into_u8(reg.reg)>>

\* the command byte lands after the value byte
write_regs_cmds_Mutant(registers) ==
    [k \in 1 .. 2 * Len(registers) |->
        LET i == (k - 1) \div 2
            m == Register_match(registers[i + 1])
        IN  IF k = 2 * i + 1 THEN m[2] ELSE BitOr(64, Shl(m[1], 2))]

\* the buffer cmds that the loop of write_regs fills
write_regs_cmds(registers) ==
    [k \in 1 .. 2 * Len(registers) |->
        LET i == (k - 1) \div 2
            m == Register_match(registers[i + 1])
        IN  IF k = 2 * i + 1 THEN BitOr(64, Shl(m[1], 2)) ELSE m[2]]

\* ADS122C04::write_regs::<N>
write_regs ==
    \E registers \in RegisterArrays :
        \E r \in WriteResults :
            /\ i2c' = <<I2cWrite(address, write_regs_cmds(registers), r)>>
            /\ ret' = IF r.ok THEN Ok("unit") ELSE Err(r.err)
            /\ op' = Call("write_regs", Len(registers), registers)
            /\ UNCHANGED address

\* the register index is not shifted into place
read_reg_raw_Mutant(reg, r) ==
    LET cmd == BitOr(32, reg)
    IN  [txn |-> I2cWriteRead(address, <<cmd>>, 1, r),
         result |-> IF r.ok THEN Ok(r.data[1]) ELSE Err(r.err)]

\* ADS122C04::read_reg_raw, the transport answering r
read_reg_raw(reg, r) ==
    LET cmd == BitOr(32, Shl(reg, 2))
    IN  [txn |-> I2cWriteRead(address, <<cmd>>, 1, r),
         result |-> IF r.ok THEN Ok(r.data[1]) ELSE Err(r.err)]

\* ADS122C04::read_reg0
read_reg0 ==
    \E r \in WriteReadResults(1, Byte) :
        LET raw == read_reg_raw(0, r)
        IN  /\ i2c' = <<raw.txn>>
            /\ ret' = IF raw.result.ok THEN Ok(read_reg0_decode(raw.result.value))
                      ELSE Err(raw.result.err)
            /\ op' = Call("read_reg0", 0, << >>)
            /\ UNCHANGED address

\* ADS122C04::read_reg1
read_reg1 ==
    \E r \in WriteReadResults(1, Byte) :
        LET raw == read_reg_raw(1, r)
        IN  /\ i2c' = <<raw.txn>>
            /\ ret' = IF raw.result.ok THEN Ok(read_reg1_decode(raw.result.value))
                      ELSE Err(raw.result.err)
            /\ op' = Call("read_reg1", 0, << >>)
            /\ UNCHANGED address

\* ADS122C04::read_reg2
read_reg2 ==
    \E r \in WriteReadResults(1, Byte) :
        LET raw == read_reg_raw(2, r)
        IN  /\ i2c' = <<raw.txn>>
            /\ ret' = IF raw.result.ok THEN Ok(read_reg2_decode(raw.result.value))
                      ELSE Err(raw.result.err)
            /\ op' = Call("read_reg2", 0, << >>)
            /\ UNCHANGED address

\* ADS122C04::read_reg3
read_reg3 ==
    \E r \in WriteReadResults(1, Byte) :
        LET raw == read_reg_raw(3, r)
        IN  /\ i2c' = <<raw.txn>>
            /\ ret' = IF raw.result.ok THEN Ok(read_reg3_decode(raw.result.value))
                      ELSE Err(raw.result.err)
            /\ op' = Call("read_reg3", 0, << >>)
            /\ UNCHANGED address

Next ==
    \/ reset
    \/ start_sync
    \/ power_down
    \/ read_data
    \/ read_data_ready
    \/ write_regs
    \/ read_reg0
    \/ read_reg1
    \/ read_reg2
    \/ read_reg3

Spec == Init /\ [][Next]_vars

\* ------------------------------------------------------------ properties
\* the byte the transport returned to the last one-byte read
ResponseByte == i2c[1].result.data[1]

\* the last call was `name` and its transport transaction succeeded
Answered(name) == op.name = name /\ Len(i2c) = 1 /\ i2c[1].result.ok

\* C1: round trip of Register1: when the transport returns u8::from(v) to
\* read_reg1, read_reg1 returns Ok(v), for every Register1 value v.
RoundTripRegister1 ==
    Answered("read_reg1") =>
        \A v \in Register1 :
            Register1_into_u8(v) = ResponseByte => (ret.ok /\ ret.value = v)

\* C2: round trip of Register2: when the transport returns u8::from(v) to
\* read_reg2, read_reg2 returns Ok(v), for every Register2 value v.
RoundTripRegister2 ==
    Answered("read_reg2") =>
        \A v \in Register2 :
            Register2_into_u8(v) = ResponseByte => (ret.ok /\ ret.value = v)

\* C3: round trip of Register0 and of Register3: read_reg0 fed u8::from(v)
\* returns Ok(v), read_reg3 fed u8::from(w) returns Ok(w), and the encoded
\* Register3 byte has its low two bits zero.
RoundTripRegister0And3 ==
    /\ Answered("read_reg0") =>
           \A v \in Register0 :
               Register0_into_u8(v) = ResponseByte => (ret.ok /\ ret.value = v)
    /\ Answered("read_reg3") =>
           \A w \in Register3 :
               Register3_into_u8(w) = ResponseByte =>
                   (ret.ok /\ ret.value = w /\ ResponseByte % 4 = 0)

\* read_reg0 and read_reg3 each returned a value whose encoding is the byte read
RoundTripRegister0And3Witness ==
    \/ /\ Answered("read_reg0")
       /\ ret.ok
       /\ ret.value = [mux |-> "Shorted", gain |-> "X128", pga_bypass |-> TRUE]
       /\ Register0_into_u8(ret.value) = ResponseByte
    \/ /\ Answered("read_reg3")
       /\ ret.ok
       /\ ret.value = [current_mux_1 |-> "Refn", current_mux_2 |-> "Ain3"]
       /\ Register3_into_u8(ret.value) = ResponseByte

NormalRates == <<"N20", "N45", "N90", "N175", "N330", "N600", "N1000">>
TurboRates == <<"T40", "T90", "T180", "T350", "T660", "T1200", "T2000">>

\* C4: data-rate pairing: the data_rate read_reg1 returns is fixed by the
\* rate bits [7:5] and the family bit [4] of the response byte: rate code r
\* in 0..6 gives the r-th rate of the family, rate code 7 the family's first.
DataRatePairing ==
    Answered("read_reg1") =>
        LET rate == (ResponseByte \div 32) % 8
            family == (ResponseByte \div 16) % 2
            r == IF rate <= 6 THEN rate ELSE 0
        IN  /\ ret.ok
            /\ ret.value.data_rate =
                   IF family = 0 THEN NormalRates[r + 1] ELSE TurboRates[r + 1]

\* the field holds the member whose code is `code`, or the default if none is
Decoded(E, code, default, field) ==
    IF \E m \in DOMAIN E : E[m] = code
    THEN E[field] = code
    ELSE field = default

BatchWriteFraming ==
    op.name = "write_regs" =>
        /\ Len(i2c) = 1
        /\ i2c[1].kind = "write"
        /\ Len(i2c[1].write) = 2 * op.N
        /\ Len(op.registers) = op.N
        /\ \A i \in 0 .. op.N - 1 :
               /\ i2c[1].write[2 * i + 1] = 64 + 4 * op.registers[i + 1].index
               /\ i2c[1].write[2 * i + 2] = Register_match(op.registers[i + 1])[2]
        /\ (op.registers = <<Reg0([mux |-> "A1A0", gain |-> "X8", pga_bypass |-> TRUE])>>
               => i2c[1].write = <<64, 55>>)

\* two entries for the same register index, with different values, were sent
BatchWriteFramingWitness ==
    /\ op.name = "write_regs"
    /\ op.N = 2
    /\ op.registers[1].index = op.registers[2].index
    /\ op.registers[1] # op.registers[2]
    /\ i2c[1].write[1] = i2c[1].write[3]
    /\ i2c[1].write[2] # i2c[1].write[4]

\* the bytes the wire-format table has an operation send
OpcodeTable(name) ==
    CASE name = "reset" -> <<6>>
      [] name = "start_sync" -> <<8>>
      [] name = "power_down" -> <<2>>
      [] name = "read_data" -> <<16>>
      [] name = "read_data_ready" -> <<40>>
      [] name = "read_reg0" -> <<32>>
      [] name = "read_reg1" -> <<36>>
      [] name = "read_reg2" -> <<40>>
      [] name = "read_reg3" -> <<44>>

\* C7: wire format, one exchange per operation: reset, start_sync and
\* power_down do one write of their opcode; read_data does one write-read of
\* [0x10] reading N bytes, returned unmodified; read_data_ready and read_regK
\* do one write-read of their opcode reading 1 byte.
WireFormat ==
    op.name \notin {"new", "write_regs"} =>
        /\ Len(i2c) = 1
        /\ i2c[1].write = OpcodeTable(op.name)
        /\ IF op.name \in {"reset", "start_sync", "power_down"}
           THEN i2c[1].kind = "write"
           ELSE /\ i2c[1].kind = "write_read"
                /\ i2c[1].read_len = IF op.name = "read_data" THEN op.N ELSE 1
        /\ (op.name = "read_data" /\ i2c[1].result.ok) =>
               (ret.ok /\ ret.value = i2c[1].result.data /\ Len(ret.value) = op.N)

\* read_data::<2> returned the two bytes the transport read
WireFormatWitness ==
    /\ op.name = "read_data"
    /\ op.N = 2
    /\ ret.ok
    /\ ret.value = <<165, 255>>
    /\ i2c[1].write = <<16>>

\* C8: error propagation without retry: when the transport transaction of a
\* call fails with e, the call returns exactly Err(e), with no value, and the
\* call makes no further transaction.
ErrorPropagation ==
    \A i \in 1 .. Len(i2c) :
        ~i2c[i].result.ok =>
            /\ Len(i2c) = 1
            /\ ~ret.ok
            /\ ret.err = i2c[i].result.err
            /\ ret.value = "none"

\* a register read whose transaction failed returned the transport's error
ErrorPropagationWitness ==
    /\ op.name = "read_reg2"
    /\ Len(i2c) = 1
    /\ ~i2c[1].result.ok
    /\ i2c[1].result.err = "ArbitrationLoss"
    /\ ret = Err("ArbitrationLoss")

\* C9: data-ready agreement: read_data_ready and read_reg2 send the same
\* opcode 0x28, and for the same response byte b the boolean of
\* read_data_ready equals the data_ready field of read_reg2, both bit 7 of b.
DataReadyAgreement ==
    /\ op.name = "read_data_ready" =>
           /\ i2c[1].write = <<40>>
           /\ i2c[1].result.ok =>
                  /\ ret.ok
                  /\ ret.value = (ResponseByte \div 128 = 1)
                  /\ ret.value = read_reg2_decode(ResponseByte).data_ready
    /\ op.name = "read_reg2" =>
           /\ i2c[1].write = <<40>>
           /\ i2c[1].result.ok =>
                  /\ ret.ok
                  /\ ret.value.data_ready = (ResponseByte \div 128 = 1)
                  /\ ret.value.data_ready = data_ready_bit(i2c[1].result.data)

\* read_data_ready answered true for a byte with bit 7 set and other bits clear
DataReadyAgreementWitness ==
    /\ Answered("read_data_ready")
    /\ ResponseByte = 128
    /\ ret.ok
    /\ ret.value = TRUE

\* the bytes a call sends, from the call alone
SentBytes(c) ==
    IF c.name = "write_regs" THEN write_regs_cmds(c.registers)
    ELSE OpcodeTable(c.name)

\* C10: the session is stateless: no operation, succeeding or failing,
\* changes the stored address; every transaction goes to that address; the
\* bytes sent are fixed by the operation and its arguments, whatever the
\* earlier operations and their outcomes were.
SessionStateless ==
    [][/\ address' = address
       /\ Len(i2c') >= 1
       /\ \A i \in 1 .. Len(i2c') :
              /\ i2c'[i].address = address
              /\ i2c'[i].write = SentBytes(op')]_vars

\* a call failed and the address it used is still the stored one
SessionStatelessWitness ==
    /\ op.name = "start_sync"
    /\ ~ret.ok
    /\ Len(i2c) = 1
    /\ i2c[1].address = address
    /\ address \in Addresses

====
